---- MODULE Spec2Model ----
(***************************************************************************)
(* Model of app.py, the Streamlit trade dashboard: the cached loader       *)
(* get_data_from_sheet, the filter stage of the module body, and the       *)
(* chart helpers create_top_n_chart / create_balance_chart.                *)
(*                                                                         *)
(* Column names of the sheet are written in ASCII:                         *)
(*   "country" = 'ชื่อประเทศ'   "hs_code" = 'พิกัดศุลกากร'                    *)
(*   "item"    = 'รายการสินค้า'  "year"    = 'ปี พ.ศ.'                       *)
(*   "import"  = 'นำเข้า'       "export"  = 'ส่งออก'                        *)
(*   "balance" = 'ดุลการค้า'                                                *)
(* A text is a sequence of one-character strings.                          *)
(***************************************************************************)
EXTENDS Integers, Sequences, FiniteSets, TLC

VARIABLES
    now,          \* wall clock, in seconds
    remote,       \* state of the Google Sheet and of the credentials
    cache,        \* the st.cache_data entry of get_data_from_sheet
    fetched,      \* did the latest script run execute the loader's body
    df,           \* module body: df
    crit,         \* the four sidebar text inputs of the latest run
    view,         \* analysis_type of the latest run
    filtered_df,  \* module body: filtered_df
    outcome,      \* how the latest script run ended
    fn            \* argument and result of a helper called on its own

vars == <<now, remote, cache, fetched, df, crit, view, filtered_df, outcome, fn>>

-----------------------------------------------------------------------------
(* Bounds of the model *)

MaxTime == 450
MaxRows == 2
MaxAggRows == 3
MaxTopN == 3

-----------------------------------------------------------------------------
(* Text *)

Digits == <<"0", "1", "2", "3", "4", "5", "6", "7", "8", "9">>

\* str.lower on one character of the model's alphabet
Lower(ch) == IF ch = "A" THEN "a" ELSE IF ch = "B" THEN "b" ELSE ch

\* code point order of the model's alphabet (used to sort group keys)
CharOrd(ch) ==
    CASE ch = " " -> 32 [] ch = "(" -> 40 [] ch = "-" -> 45 [] ch = "." -> 46
      [] ch = "0" -> 48 [] ch = "1" -> 49 [] ch = "2" -> 50 [] ch = "3" -> 51
      [] ch = "4" -> 52 [] ch = "5" -> 53 [] ch = "6" -> 54 [] ch = "7" -> 55
      [] ch = "8" -> 56 [] ch = "9" -> 57 [] ch = "A" -> 65 [] ch = "B" -> 66
      [] ch = "a" -> 97 [] ch = "b" -> 98 [] ch = "c" -> 99 [] ch = "x" -> 120

RECURSIVE TextLess(_, _)
TextLess(s, t) ==
    IF t = <<>> THEN FALSE
    ELSE IF s = <<>> THEN TRUE
    ELSE IF CharOrd(Head(s)) # CharOrd(Head(t)) THEN CharOrd(Head(s)) < CharOrd(Head(t))
    ELSE TextLess(Tail(s), Tail(t))

RECURSIVE LStrip(_)
LStrip(s) == IF s # <<>> /\ Head(s) = " " THEN LStrip(Tail(s)) ELSE s

RECURSIVE RStrip(_)
RStrip(s) ==
    IF s # <<>> /\ s[Len(s)] = " " THEN RStrip(SubSeq(s, 1, Len(s) - 1)) ELSE s

\* str.strip()
Strip(s) == RStrip(LStrip(s))

\* plain substring test, ignoring case: the reading of "contains" as text
ContainsText(s, p) ==
    \E i \in 0..(Len(s) - Len(p)) :
        \A j \in 1..Len(p) : Lower(s[i + j]) = Lower(p[j])

\* re.compile(pat): over the model's alphabet the only pattern that does not
\* compile is one with an unclosed "(" (there is no ")" in the alphabet)
RegexCompiles(pat) == \A j \in 1..Len(pat) : pat[j] # "("

\* re.search(pat, s, re.IGNORECASE) for a pattern that compiles: "." matches
\* any character, every other character of the alphabet matches itself
RegexSearch(pat, s) ==
    \E i \in 0..(Len(s) - Len(pat)) :
        \A j \in 1..Len(pat) : pat[j] = "." \/ Lower(s[i + j]) = Lower(pat[j])

-----------------------------------------------------------------------------
(* Numbers as text *)

IsDigit(ch) == \E d \in 1..10 : Digits[d] = ch

DigitVal(ch) == (CHOOSE d \in 1..10 : Digits[d] = ch) - 1

RECURSIVE DigitsVal(_)
DigitsVal(s) ==
    IF s = <<>> THEN 0 ELSE 10 * DigitsVal(SubSeq(s, 1, Len(s) - 1)) + DigitVal(s[Len(s)])

\* the cells pd.to_numeric reads as a whole number (cells with a decimal
\* point or an exponent are not drawn by the model)
IsIntText(s) ==
    LET t == Strip(s)
        u == IF t # <<>> /\ Head(t) = "-" THEN Tail(t) ELSE t
    IN  u # <<>> /\ \A j \in 1..Len(u) : IsDigit(u[j])

IntOfText(s) ==
    LET t == Strip(s)
    IN  IF Head(t) = "-" THEN 0 - DigitsVal(Tail(t)) ELSE DigitsVal(t)

RECURSIVE NatText(_)
NatText(n) == IF n < 10 THEN <<Digits[n + 1]>> ELSE NatText(n \div 10) \o <<Digits[(n % 10) + 1]>>

\* str(value) of a cell of an int64 column, and of a float64 column
IntText(n) == IF n < 0 THEN <<"-">> \o NatText(0 - n) ELSE NatText(n)
FloatText(n) == IntText(n) \o <<".", "0">>

-----------------------------------------------------------------------------
(* Tables (pandas DataFrame) *)

Range(f) == {f[i] : i \in DOMAIN f}

\* numeric_cols of get_data_from_sheet
numeric_cols == <<"import", "export", "year">>

\* pd.DataFrame(): zero rows, no columns
EmptyFrame == [columns |-> <<>>, rows |-> <<>>, floats |-> {}]

\* DataFrame.empty: some axis has length 0
IsEmpty(t) == Len(t.columns) = 0 \/ Len(t.rows) = 0

HasColumn(t, c) == c \in Range(t.columns)

IndexOf(seq, c) == CHOOSE i \in DOMAIN seq : seq[i] = c

\* pd.DataFrame(data[1:], columns=data[0]): every cell is still text
FrameOf(data) ==
    LET header == data[1]
    IN  [columns |-> header,
         rows    |-> [r \in 1..(Len(data) - 1) |->
                         [c \in Range(header) |-> data[r + 1][IndexOf(header, c)]]],
         floats  |-> {}]

\* pd.to_numeric(df[col], errors='coerce').fillna(0): a cell that is no number
\* becomes NaN, which makes the column float64, and then 0
ToNumeric(t, col) ==
    [t EXCEPT
        !.rows   = [r \in DOMAIN t.rows |->
                       [t.rows[r] EXCEPT ![col] = IF IsIntText(@) THEN IntOfText(@) ELSE 0]],
        !.floats = IF \E r \in DOMAIN t.rows : ~IsIntText(t.rows[r][col])
                   THEN @ \cup {col} ELSE @]

RECURSIVE CoerceFrom(_, _)
CoerceFrom(t, k) ==
    IF k > Len(numeric_cols) THEN t
    ELSE CoerceFrom(IF HasColumn(t, numeric_cols[k]) THEN ToNumeric(t, numeric_cols[k]) ELSE t,
                    k + 1)

\* lines 63-71 of get_data_from_sheet
CoerceNumeric(t) == CoerceFrom(t, 1)

\* Series.astype(str) of one cell
CellText(t, row, col) ==
    IF col \in Range(numeric_cols)
    THEN IF col \in t.floats THEN FloatText(row[col]) ELSE IntText(row[col])
    ELSE row[col]

-----------------------------------------------------------------------------
(* get_data_from_sheet *)

TTL == 300

\* what the try block of get_data_from_sheet raises ("none": it reaches the
\* return of line 74; "handled_inner": the inner handler of line 44 returned)
RaisedInTry(rem) ==
    IF rem.secret /\ rem.fault = "client_creation" THEN "handled_inner"
    ELSE IF ~rem.secret /\ rem.fault = "key_file_missing" THEN "FileNotFoundError"
    ELSE IF rem.fault = "spreadsheet_not_found" THEN "SpreadsheetNotFound"
    ELSE IF rem.fault = "worksheet_not_found" THEN "WorksheetNotFound"
    ELSE IF rem.fault = "transport" THEN "APIError"
    ELSE IF Len(rem.data) = 0 THEN "IndexError"
    ELSE "none"

\* the except clauses without the generic one of line 83
ExceptClauseNoGeneric(exc) ==
    IF exc = "SpreadsheetNotFound" THEN "L75"
    ELSE IF exc = "FileNotFoundError" THEN "L79"
    ELSE "escapes"

\* the except clauses of lines 75-86: which one takes the exception
ExceptClause(exc) ==
    IF exc = "SpreadsheetNotFound" THEN "L75"
    ELSE IF exc = "FileNotFoundError" THEN "L79"
    ELSE "L83"

\* the st.write lines before the client is used
DebugMsgs(rem) ==
    IF rem.secret
    THEN IF rem.fault = "client_creation" THEN {"debug_secret_found"}
         ELSE {"debug_secret_found", "debug_client_created"}
    ELSE {"debug_fallback"}

\* the body of get_data_from_sheet: the value it returns, what it shows, and
\* the exception that leaves it ("none" when it returns)
get_data_from_sheet(rem) ==
    LET exc == RaisedInTry(rem)
        clause == ExceptClause(exc)
    IN  IF exc = "none"
        THEN [raised |-> "none", value |-> CoerceNumeric(FrameOf(rem.data)),
              msgs |-> DebugMsgs(rem) \cup {"success"}]
        ELSE IF exc = "handled_inner"
        THEN [raised |-> "none", value |-> EmptyFrame,
              msgs |-> DebugMsgs(rem) \cup {"error_client"}]
        ELSE IF clause = "L75"
        THEN [raised |-> "none", value |-> EmptyFrame,
              msgs |-> DebugMsgs(rem) \cup {"error_not_found", "info_check_ids"}]
        ELSE IF clause = "L79"
        THEN [raised |-> "none", value |-> EmptyFrame,
              msgs |-> DebugMsgs(rem) \cup {"error_key_file", "info_key_file"}]
        ELSE IF clause = "L83"
        THEN [raised |-> "none", value |-> EmptyFrame,
              msgs |-> DebugMsgs(rem) \cup {"error_fetch", "info_access"}]
        ELSE [raised |-> exc, value |-> EmptyFrame, msgs |-> DebugMsgs(rem)]

\* a cache without ttl: an entry is served for ever
HitNoExpiry(entry, t) == entry.valid

\* st.cache_data(ttl=300): an entry is served while now < stored + ttl

Hit(entry, t) == entry.valid /\ t < entry.stored + TTL

-----------------------------------------------------------------------------
(* The filter stage of the module body *)

\* the column each sidebar text is matched against, in the order of the code
FilterColumns == <<"country", "hs_code", "item", "year">>

NoCriteria == [c \in Range(FilterColumns) |-> <<>>]

\* Series.astype(str).str.contains(pat, case=False, na=False): pat is a
\* regular expression (regex=True is the default of str.contains)
StrContains(cell, pat) == RegexSearch(pat, cell)

\* one "if selected_x: filtered_df = filtered_df[...]" statement
FilterStep(t, text, col) ==
    IF text = <<>> THEN [raised |-> "none", value |-> t]
    ELSE IF ~HasColumn(t, col) THEN [raised |-> "KeyError", value |-> t]
    ELSE IF ~RegexCompiles(Strip(text)) THEN [raised |-> "re.error", value |-> t]
    ELSE [raised |-> "none",
          value  |-> [t EXCEPT !.rows =
                         SelectSeq(t.rows, LAMBDA row : StrContains(CellText(t, row, col), Strip(text)))]]

RECURSIVE FilterFrom(_, _, _)
FilterFrom(acc, cr, k) ==
    IF k > Len(FilterColumns) \/ acc.raised # "none" THEN acc
    ELSE FilterFrom(FilterStep(acc.value, cr[FilterColumns[k]], FilterColumns[k]), cr, k + 1)

\* lines 112-121: filtered_df, or the exception that ends the script run
FilterStage(t, cr) == FilterFrom([raised |-> "none", value |-> t], cr, 1)

\* a filter stage that drops the rows from df itself
SourceAfterFilterInPlace(t, cr) == FilterStage(t, cr).value

\* the table df is bound to after lines 112-121: the stage copies df and
\* builds new frames with boolean indexing, it writes nothing into df

SourceAfterFilter(t, cr) == t

-----------------------------------------------------------------------------
(* The chart helpers *)

\* names bound in the module when the helpers run: the imports of lines 3-6
ModuleNames == {"st", "pd", "gspread", "json"}

\* default of the parameter top_n of both helpers
TopNDefault == 10

KeyLess(col, a, b) == IF col \in Range(numeric_cols) THEN a < b ELSE TextLess(a, b)

RECURSIVE SortedKeys(_, _)
SortedKeys(S, col) ==
    IF S = {} THEN <<>>
    ELSE LET m == CHOOSE x \in S : \A y \in S \ {x} : KeyLess(col, x, y)
         IN  <<m>> \o SortedKeys(S \ {m}, col)

\* the group keys of groupby(col): the distinct values, sorted
GroupKeys(t, col) == SortedKeys({t.rows[r][col] : r \in DOMAIN t.rows}, col)

RECURSIVE SumOf(_, _, _, _)
SumOf(t, col, key, value_col) ==
    IF t.rows = <<>> THEN 0
    ELSE (IF Head(t.rows)[col] = key THEN Head(t.rows)[value_col] ELSE 0)
         + SumOf([t EXCEPT !.rows = Tail(t.rows)], col, key, value_col)

Abs(x) == IF x < 0 THEN 0 - x ELSE x

\* Series.nlargest(n), keep='first': the positions of the n largest values,
\* largest first, equal values in their order of appearance
RECURSIVE NLargestFrom(_, _, _)
NLargestFrom(vals, taken, n) ==
    IF n <= 0 \/ taken = DOMAIN vals THEN <<>>
    ELSE LET rest == DOMAIN vals \ taken
             i == CHOOSE a \in rest :
                      \A b \in rest : vals[a] > vals[b] \/ (vals[a] = vals[b] /\ a <= b)
         IN  <<i>> \o NLargestFrom(vals, taken \cup {i}, n - 1)

\* the n smallest instead
NSmallest(vals, n) == NLargestFrom([i \in DOMAIN vals |-> 0 - vals[i]], {}, n)

NLargest(vals, n) == NLargestFrom(vals, {}, n)

\* line 147: df_data.groupby(col_name)[value_col].sum().nlargest(top_n)
TopNSummary(df_data, col_name, value_col, top_n) ==
    LET keys == GroupKeys(df_data, col_name)
        sums == [k \in DOMAIN keys |-> SumOf(df_data, col_name, keys[k], value_col)]
        pick == NLargest(sums, top_n)
    IN  [p \in DOMAIN pick |-> [key |-> keys[pick[p]], value |-> sums[pick[p]]]]

\* the same with the absolute value written into the balance column
BalanceSummaryAbs(df_data, group_col, top_n) ==
    LET keys == GroupKeys(df_data, group_col)
        bal  == [k \in DOMAIN keys |-> Abs(SumOf(df_data, group_col, keys[k], "export")
                                           - SumOf(df_data, group_col, keys[k], "import"))]
        pick == NLargest(bal, top_n)
    IN  [p \in DOMAIN pick |->
            [key     |-> keys[pick[p]],
             import  |-> SumOf(df_data, group_col, keys[pick[p]], "import"),
             export  |-> SumOf(df_data, group_col, keys[pick[p]], "export"),
             balance |-> bal[pick[p]]]]

\* lines 158-162: grouped sums, the derived balance column, and the rows of
\* the top_n largest absolute balances
BalanceSummary(df_data, group_col, top_n) ==
    LET keys == GroupKeys(df_data, group_col)
        imp  == [k \in DOMAIN keys |-> SumOf(df_data, group_col, keys[k], "import")]
        exp  == [k \in DOMAIN keys |-> SumOf(df_data, group_col, keys[k], "export")]
        bal  == [k \in DOMAIN keys |-> exp[k] - imp[k]]
        pick == NLargest([k \in DOMAIN keys |-> Abs(bal[k])], top_n)
    IN  [p \in DOMAIN pick |->
            [key |-> keys[pick[p]], import |-> imp[pick[p]],
             export |-> exp[pick[p]], balance |-> bal[pick[p]]]]

\* create_top_n_chart: the exception that leaves it, what it shows, the
\* local variable summary once line 147 has run, and the rows of the figure
\* it returns
create_top_n_chart(df_data, col_name, value_col, top_n) ==
    IF ~HasColumn(df_data, col_name)
    THEN [raised |-> IF "go" \in ModuleNames THEN "none" ELSE "NameError",
          msgs |-> {"warning_no_column"}, computed |-> FALSE, summary |-> <<>>,
          figure |-> <<>>]
    ELSE IF ~HasColumn(df_data, value_col)
    THEN [raised |-> "KeyError", msgs |-> {}, computed |-> FALSE, summary |-> <<>>,
          figure |-> <<>>]
    ELSE LET summary == TopNSummary(df_data, col_name, value_col, top_n)
         IN  [raised |-> IF "px" \in ModuleNames THEN "none" ELSE "NameError",
              msgs |-> {}, computed |-> TRUE, summary |-> summary,
              figure |-> IF "px" \in ModuleNames THEN summary ELSE <<>>]

\* create_balance_chart, likewise (summary is summary_df_sorted of line 162)
create_balance_chart(df_data, group_col, top_n) ==
    IF ~HasColumn(df_data, group_col)
    THEN [raised |-> IF "go" \in ModuleNames THEN "none" ELSE "NameError",
          msgs |-> {"warning_no_column"}, computed |-> FALSE, summary |-> <<>>,
          figure |-> <<>>]
    ELSE IF ~HasColumn(df_data, "import") \/ ~HasColumn(df_data, "export")
    THEN [raised |-> "KeyError", msgs |-> {}, computed |-> FALSE, summary |-> <<>>,
          figure |-> <<>>]
    ELSE LET summary == BalanceSummary(df_data, group_col, top_n)
         IN  [raised |-> IF "px" \in ModuleNames THEN "none" ELSE "NameError",
              msgs |-> {}, computed |-> TRUE, summary |-> summary,
              figure |-> IF "px" \in ModuleNames THEN summary ELSE <<>>]

\* lines 181-187: the yearly trend of the overview
YearlyTrend(t) ==
    IF ~HasColumn(t, "year")
    THEN [raised |-> "none", msgs |-> {"warning_no_year"}, figure |-> <<>>]
    ELSE IF ~HasColumn(t, "import") \/ ~HasColumn(t, "export")
    THEN [raised |-> "KeyError", msgs |-> {}, figure |-> <<>>]
    ELSE [raised |-> IF "px" \in ModuleNames THEN "none" ELSE "NameError",
          msgs |-> {},
          figure |-> IF "px" \in ModuleNames
                     THEN LET keys == GroupKeys(t, "year")
                          IN  [k \in DOMAIN keys |->
                                  [key    |-> keys[k],
                                   import |-> SumOf(t, "year", keys[k], "import"),
                                   export |-> SumOf(t, "year", keys[k], "export")]]
                     ELSE <<>>]

Views == {"overview", "item_analysis", "country_analysis", "hs_code_analysis"}

ViewColumn(v) ==
    CASE v = "overview" -> "country" [] v = "item_analysis" -> "item"
      [] v = "country_analysis" -> "country" [] v = "hs_code_analysis" -> "hs_code"

\* the k-th chart of a view (lines 171-221), each view draws three
ChartOf(t, v, k) ==
    IF k = 1 THEN create_top_n_chart(t, ViewColumn(v), "import", TopNDefault)
    ELSE IF k = 2 THEN create_top_n_chart(t, ViewColumn(v), "export", TopNDefault)
    ELSE IF v = "overview" THEN YearlyTrend(t)
    ELSE create_balance_chart(t, ViewColumn(v), TopNDefault)

\* the charts drawn so far, with one more
WithChart(acc, c) ==
    [raised |-> c.raised, msgs |-> acc.msgs \cup c.msgs,
     figures |-> IF c.raised = "none" THEN Append(acc.figures, c.figure) ELSE acc.figures]

RECURSIVE ChartsFrom(_, _, _, _)
ChartsFrom(t, v, k, acc) ==
    IF k > 3 \/ acc.raised # "none" THEN acc
    ELSE ChartsFrom(t, v, k + 1, WithChart(acc, ChartOf(t, v, k)))

\* lines 171-221 for one view: the first exception ends the script run
RenderView(t, v) == ChartsFrom(t, v, 1, [raised |-> "none", msgs |-> {}, figures |-> <<>>])

-----------------------------------------------------------------------------
(* Inputs: what the sheet can hold, what the user can type *)

FullHeader == <<"country", "hs_code", "item", "year", "import", "export">>

Without(header, c) == SelectSeq(header, LAMBDA h : h # c)

\* rows of the sheet, cell texts as get_all_values returns them
SheetRow1 == <<<<"A", "b">>, <<"1">>, <<"a">>, <<"6", "4">>, <<"2">>, <<"5">>>>
SheetRow2 == <<<<"b">>, <<"2">>, <<"b">>, <<"6", "5">>, <<"7">>, <<"x">>>>

\* a row cut down to the columns of a header
Project(row, header) == [k \in DOMAIN header |-> row[IndexOf(FullHeader, header[k])]]

SheetOf(header, rows) == <<header>> \o [r \in DOMAIN rows |-> Project(rows[r], header)]

\* the sheets of the script runs: a full one, one without the country
\* column, one without the import column
CycleSheets ==
    {SheetOf(FullHeader, <<SheetRow1, SheetRow2>>),
     SheetOf(Without(FullHeader, "country"), <<SheetRow1>>),
     SheetOf(Without(FullHeader, "import"), <<SheetRow2>>)}

Faults == {"spreadsheet_not_found", "worksheet_not_found", "transport"}

\* data = <<>> is a worksheet with no row at all, not even a header
RemoteStates ==
    {[secret |-> TRUE, fault |-> "client_creation", data |-> <<>>],
     [secret |-> FALSE, fault |-> "key_file_missing", data |-> <<>>],
     [secret |-> FALSE, fault |-> "none", data |-> <<>>],
     [secret |-> FALSE, fault |-> "none", data |-> SheetOf(FullHeader, <<SheetRow1, SheetRow2>>)]}
    \cup {[secret |-> TRUE, fault |-> f, data |-> <<>>] : f \in Faults}
    \cup {[secret |-> TRUE, fault |-> "none", data |-> d] : d \in CycleSheets}

TickSteps == {150, 299}

-----------------------------------------------------------------------------
(* One run of the script (Streamlit reruns it on every interaction) *)

NoOutcome == [state |-> "not_run", stage |-> "none", raised |-> "none", msgs |-> {}, at |-> 0]

NoCall == [op |-> "none"]

\* the loader as the script calls it, through st.cache_data
CachedCall(entry, t, rem) ==
    IF Hit(entry, t)
    THEN [fetched |-> FALSE, raised |-> "none", value |-> entry.value, msgs |-> entry.msgs]
    ELSE LET r == get_data_from_sheet(rem)
         IN  [fetched |-> TRUE, raised |-> r.raised, value |-> r.value, msgs |-> r.msgs]

\* a cache that keeps its entry when the loader returns an empty frame
MemoizeSuccessOnly(entry, call, t) ==
    IF ~call.fetched \/ call.raised # "none" \/ IsEmpty(call.value) THEN entry
    ELSE [valid |-> TRUE, value |-> call.value, msgs |-> call.msgs, stored |-> t]

\* what st.cache_data holds after the call: every value the function returns
\* is stored, an empty frame like any other; an exception stores nothing
Memoize(entry, call, t) ==
    IF ~call.fetched \/ call.raised # "none" THEN entry
    ELSE [valid |-> TRUE, value |-> call.value, msgs |-> call.msgs, stored |-> t]

\* lines 129-221, given the result of the view's charts
AfterView(r, filtered) ==
    [state |-> IF r.raised = "none" THEN "rendered" ELSE "failed",
     stage |-> IF r.raised = "none" THEN "none" ELSE "view",
     raised |-> r.raised, msgs |-> r.msgs, filtered |-> filtered]

\* lines 123-221, given the result of the filter stage
AfterFilter(f, v) ==
    IF f.raised # "none"
    THEN [state |-> "failed", stage |-> "filter", raised |-> f.raised,
          msgs |-> {}, filtered |-> EmptyFrame]
    ELSE IF IsEmpty(f.value)
    THEN [state |-> "no_match", stage |-> "none", raised |-> "none",
          msgs |-> {"warning_no_match"}, filtered |-> f.value]
    ELSE AfterView(RenderView(f.value, v), f.value)

\* the module body from line 95 on, given df: how the run ends
Body(t, v, cr) ==
    IF IsEmpty(t)
    THEN [state |-> "no_data", stage |-> "none", raised |-> "none",
          msgs |-> {"info_cannot_load"}, filtered |-> EmptyFrame]
    ELSE AfterFilter(FilterStage(t, cr), v)

\* lines 93-224, given what the loader call returned
Script(call, v, cr) ==
    IF call.raised # "none"
    THEN [fetched |-> call.fetched, df |-> call.value, shown |-> FALSE,
          state |-> "failed", stage |-> "load", raised |-> call.raised,
          msgs |-> call.msgs, filtered |-> EmptyFrame]
    ELSE [fetched |-> call.fetched, df |-> call.value, shown |-> ~IsEmpty(call.value)]
         @@ Body(call.value, v, cr)

\* one run of the script: the loader call through the cache, then the body
Rerun(v, cr) ==
    \E call \in {CachedCall(cache, now, remote)} :
    \E run \in {Script(call, v, cr)} :
    \E entry \in {Memoize(cache, call, now)} :
        /\ fetched' = run.fetched
        /\ cache' = IF run.shown /\ entry.valid
                    THEN [entry EXCEPT !.value = SourceAfterFilter(@, cr)]
                    ELSE entry
        /\ df' = run.df
        /\ crit' = IF run.shown THEN cr ELSE NoCriteria    \* the sidebar exists
        /\ view' = IF run.shown THEN v ELSE "none"
        /\ filtered_df' = run.filtered
        /\ outcome' = [state |-> run.state, stage |-> run.stage, raised |-> run.raised,
                       msgs |-> run.msgs \cup call.msgs, at |-> now]
        /\ UNCHANGED <<now, remote, fn>>

\* time passes between two interactions
Tick(d) ==
    /\ now + d <= MaxTime
    /\ now' = now + d
    /\ UNCHANGED <<remote, cache, fetched, df, crit, view, filtered_df, outcome, fn>>

\* the sheet, the credentials or the network change
SetRemote(r) ==
    /\ r # remote
    /\ remote' = r
    /\ UNCHANGED <<now, cache, fetched, df, crit, view, filtered_df, outcome, fn>>

Init ==
    /\ now = 0
    /\ remote \in RemoteStates
    /\ cache = [valid |-> FALSE, value |-> EmptyFrame, msgs |-> {}, stored |-> 0]
    /\ fetched = FALSE
    /\ df = EmptyFrame
    /\ crit = NoCriteria
    /\ view = "none"
    /\ filtered_df = EmptyFrame
    /\ outcome = NoOutcome
    /\ fn = NoCall

\* the interactions of the runs that exercise the cache
CacheViews == {"overview", "country_analysis"}
CacheCriteria == {NoCriteria, [NoCriteria EXCEPT !["item"] = <<"a">>]}

Next ==
    \/ \E v \in CacheViews, cr \in CacheCriteria : Rerun(v, cr)
    \/ \E d \in TickSteps : Tick(d)
    \/ \E r \in RemoteStates : SetRemote(r)

Spec == Init /\ [][Next]_vars

-----------------------------------------------------------------------------
(* Properties of the cached loader, under Spec *)

\* a step that is one run of the script
RerunStep == now' = now /\ remote' = remote

\* the sheet cannot be loaded: one of the failures of the loader's try block
RemoteFails(rem) ==
    \/ rem.secret /\ rem.fault = "client_creation"
    \/ ~rem.secret /\ rem.fault = "key_file_missing"
    \/ rem.fault \in Faults
    \/ rem.data = <<>>

ErrorMsgs == {"error_client", "error_not_found", "error_key_file", "error_fetch"}

\* C1: a call made less than 300 seconds after the fetch that filled the
\* cache returns the table of that fetch and fetches nothing; a call made
\* when there is no entry or the entry is 300 seconds old or older runs the
\* loader's body again and stores its result with the time of the call.
C1_TtlCache ==
    [][RerunStep =>
        IF cache.valid /\ now - cache.stored < 300
        THEN fetched' = FALSE /\ df' = cache.value /\ cache'.stored = cache.stored
        ELSE fetched' = TRUE /\ cache'.valid /\ cache'.stored = now
             /\ df' = get_data_from_sheet(remote).value /\ cache'.value = df']_vars

\* a run served from the cache after time has passed, the entry itself the
\* result of a fetch made after an earlier entry had expired
C1_Witness ==
    /\ ~fetched /\ cache.valid /\ ~IsEmpty(df)
    /\ cache.stored >= 300 /\ outcome.at > cache.stored

\* C2: whatever fails while loading, the loader returns the empty table and
\* shows an error message, and no exception leaves it.
C2_LoaderAbsorbsFailures ==
    [][(RerunStep /\ ~(cache.valid /\ now - cache.stored < 300) /\ RemoteFails(remote)) =>
        /\ outcome'.stage # "load"
        /\ df' = EmptyFrame
        /\ outcome'.msgs \cap ErrorMsgs # {}]_vars

\* a run whose fetch met a sheet without header row
C2_Witness ==
    /\ fetched /\ df = EmptyFrame /\ "error_fetch" \in outcome.msgs
    /\ remote.fault = "none" /\ remote.data = <<>> /\ outcome.at = now

\* C9: while the cache entry is the one of the same fetch, its table does
\* not change, whatever filters and views the runs in between used.
C9_CacheNotMutated ==
    [][(cache.valid /\ cache'.valid /\ cache'.stored = cache.stored) =>
        cache'.value = cache.value]_vars

\* a run served from the cache whose filter dropped rows
C9_Witness ==
    /\ ~fetched /\ cache.valid /\ cache.value = df /\ outcome.at > cache.stored
    /\ crit # NoCriteria /\ Len(filtered_df.rows) < Len(df.rows)

\* C10: a failed load is memoized like a successful one: the empty table is
\* served without a fetch for the next 300 seconds, whatever the state of
\* the sheet, and a failed fetch after expiry replaces a loaded table.
C10_FailureMemoized ==
    [][RerunStep =>
        /\ (~cache.valid /\ RemoteFails(remote)) =>
                cache'.valid /\ cache'.value = EmptyFrame /\ cache'.stored = now
        /\ (cache.valid /\ cache.value = EmptyFrame /\ now - cache.stored < 300) =>
                fetched' = FALSE /\ df' = EmptyFrame /\ cache' = cache
        /\ (cache.valid /\ ~IsEmpty(cache.value) /\ now - cache.stored >= 300
            /\ RemoteFails(remote)) =>
                fetched' = TRUE /\ cache'.value = EmptyFrame /\ df' = EmptyFrame]_vars

\* the memoized failure is served although the sheet can be loaded again
C10_Witness ==
    /\ ~fetched /\ cache.valid /\ cache.value = EmptyFrame /\ df = EmptyFrame
    /\ outcome.msgs \cap ErrorMsgs # {} /\ outcome.at > cache.stored
    /\ ~RemoteFails(remote) /\ Len(remote.data) > 1

-----------------------------------------------------------------------------
(* Script runs over every view and every combination of filter texts *)

\* the texts the user may type into each of the four inputs
CycleTexts(c) ==
    CASE c = "country" -> {<<>>, <<"a">>, <<"(">>}
      [] c = "hs_code" -> {<<>>, <<"1">>}
      [] c = "item" -> {<<>>, <<"a">>}
      [] c = "year" -> {<<>>, <<"6">>}

CycleCriteria == {cr \in [Range(FilterColumns) -> {<<>>, <<"a">>, <<"(">>, <<"1">>, <<"6">>}] :
                     \A c \in Range(FilterColumns) : cr[c] \in CycleTexts(c)}

NextCycle == \E v \in Views, cr \in CycleCriteria : Rerun(v, cr)

SpecCycle == Init /\ [][NextCycle]_vars

\* C3: every run of the script completes: no step ends it with an exception.
C3_CycleCompletes == outcome.raised = "none"

\* C4: a filter text for a column the table does not have leaves zero rows
\* and the run goes on to its "no match" state.
C4_AbsentColumnNoMatch ==
    (/\ outcome.state # "not_run" /\ ~IsEmpty(df)
     /\ \E c \in Range(FilterColumns) : crit[c] # <<>> /\ ~HasColumn(df, c))
    => (outcome.state = "no_match" /\ Len(filtered_df.rows) = 0)

-----------------------------------------------------------------------------
(* The filter stage on its own *)

FilterRow1 == <<<<"A", "b">>, <<"1">>, <<"a">>, <<"6", "4">>, <<"2">>, <<"5">>>>
FilterRow2 == <<<<"b">>, <<"2">>, <<"B">>, <<"x">>, <<"7">>, <<"1">>>>
FilterRow3 == <<<<"a", ".">>, <<"1">>, <<"b">>, <<"6", "5">>, <<"0">>, <<"3">>>>

FilterRowPool == {FilterRow1, FilterRow2, FilterRow3}

SeqsUpTo(S, n) == UNION {[1..k -> S] : k \in 1..n}

\* loaded tables with all six columns and at least one row
FilterTables ==
    {CoerceNumeric(FrameOf(SheetOf(FullHeader, rows))) : rows \in SeqsUpTo(FilterRowPool, MaxRows)}

FilterTexts == {<<>>, <<"a">>, <<".">>, <<" ", "B">>}

FilterCriteria == [Range(FilterColumns) -> FilterTexts]

InitFilter ==
    /\ now = 0
    /\ remote = [secret |-> TRUE, fault |-> "none", data |-> <<>>]
    /\ cache = [valid |-> FALSE, value |-> EmptyFrame, msgs |-> {}, stored |-> 0]
    /\ fetched = FALSE
    /\ df \in FilterTables
    /\ crit = NoCriteria
    /\ view = "none"
    /\ filtered_df = EmptyFrame
    /\ outcome = NoOutcome
    /\ fn = NoCall

\* lines 112-121 applied to df
ApplyFilter(cr) ==
    /\ fn' = [op |-> "filter", crit |-> cr, res |-> FilterStage(df, cr)]
    /\ UNCHANGED <<now, remote, cache, fetched, df, crit, view, filtered_df, outcome>>

NextFilter == \E cr \in FilterCriteria : ApplyFilter(cr)

SpecFilter == InitFilter /\ [][NextFilter]_vars

\* a record meets the criteria, read as plain text: its value in every column
\* with a non-empty text contains the trimmed text, ignoring case
MeetsAsText(t, row, cr) ==
    \A c \in Range(FilterColumns) :
        cr[c] # <<>> => (HasColumn(t, c) /\ ContainsText(CellText(t, row, c), Strip(cr[c])))

\* C6: the filtered table holds exactly the records whose values contain the
\* trimmed text of every non-empty criterion, in the order of the table.
C6_FilterIsSubstringMatch ==
    fn.op = "filter" =>
        /\ fn.res.raised = "none"
        /\ fn.res.value.rows = SelectSeq(df.rows, LAMBDA row : MeetsAsText(df, row, fn.crit))

-----------------------------------------------------------------------------
(* The chart helpers on their own *)

AggHeaders ==
    {<<"country", "import", "export">>, <<"country", "export">>, <<"import", "export">>}

\* rows of the sheet: country, import, export (the other cells do not matter
\* to the helpers)
AggRowPool ==
    {<<c, <<"1">>, <<"a">>, <<"6", "4">>, m[1], m[2]>> :
        c \in {<<"a">>, <<"b">>, <<"c">>},
        m \in {<<<<"4">>, <<"1">>>>, <<<<"1">>, <<"2">>>>}}

\* loaded tables with at least one row (the helpers are called on a
\* filtered_df that is not empty)
AggTables ==
    {CoerceNumeric(FrameOf(SheetOf(h, rows))) :
        h \in AggHeaders, rows \in SeqsUpTo(AggRowPool, MaxAggRows)}

GroupColumns == {"country", "item"}

InitAgg ==
    /\ now = 0
    /\ remote = [secret |-> TRUE, fault |-> "none", data |-> <<>>]
    /\ cache = [valid |-> FALSE, value |-> EmptyFrame, msgs |-> {}, stored |-> 0]
    /\ fetched = FALSE
    /\ df = EmptyFrame
    /\ crit = NoCriteria
    /\ view = "none"
    /\ filtered_df \in AggTables
    /\ outcome = NoOutcome
    /\ fn = NoCall

CallTopN(col_name, value_col, top_n) ==
    /\ fn' = [op |-> "create_top_n_chart", col |-> col_name, value_col |-> value_col,
              top_n |-> top_n,
              res |-> create_top_n_chart(filtered_df, col_name, value_col, top_n)]
    /\ UNCHANGED <<now, remote, cache, fetched, df, crit, view, filtered_df, outcome>>

CallBalance(group_col, top_n) ==
    /\ fn' = [op |-> "create_balance_chart", col |-> group_col, value_col |-> "balance",
              top_n |-> top_n,
              res |-> create_balance_chart(filtered_df, group_col, top_n)]
    /\ UNCHANGED <<now, remote, cache, fetched, df, crit, view, filtered_df, outcome>>

NextAgg ==
    \/ \E c \in GroupColumns, m \in {"import", "export"}, n \in 0..MaxTopN : CallTopN(c, m, n)
    \/ \E c \in GroupColumns, n \in 0..MaxTopN : CallBalance(c, n)

SpecAgg == InitAgg /\ [][NextAgg]_vars

\* the sum of a column over the rows of one group, row by row
RECURSIVE TotalUpTo(_, _, _, _, _)
TotalUpTo(t, col, key, value_col, r) ==
    IF r = 0 THEN 0
    ELSE TotalUpTo(t, col, key, value_col, r - 1)
         + (IF t.rows[r][col] = key THEN t.rows[r][value_col] ELSE 0)

Total(t, col, key, value_col) == TotalUpTo(t, col, key, value_col, Len(t.rows))

Groups(t, col) == {t.rows[r][col] : r \in DOMAIN t.rows}

Min(a, b) == IF a < b THEN a ELSE b

\* C5: with the group column or a metric column absent, the helper returns
\* an empty figure, shows a warning and raises nothing.
C5_AbsentColumnHandled ==
    (/\ fn.op \in {"create_top_n_chart", "create_balance_chart"}
     /\ \/ ~HasColumn(filtered_df, fn.col)
        \/ fn.op = "create_top_n_chart" /\ ~HasColumn(filtered_df, fn.value_col)
        \/ fn.op = "create_balance_chart"
           /\ (~HasColumn(filtered_df, "import") \/ ~HasColumn(filtered_df, "export")))
    => (/\ fn.res.raised = "none"
        /\ fn.res.figure = <<>>
        /\ "warning_no_column" \in fn.res.msgs)

\* C7: the top-N computation returns at most n entries, each a group with
\* the sum of its metric, in descending order of the sum, none smaller than
\* a group left out, and exactly k entries when there are k < n groups.
C7_TopN ==
    (fn.op = "create_top_n_chart" /\ fn.res.computed) =>
        LET s == fn.res.summary
            g == Groups(filtered_df, fn.col)
        IN  /\ Len(s) <= fn.top_n
            /\ Cardinality(g) < fn.top_n => Len(s) = Cardinality(g)
            /\ Len(s) = Min(fn.top_n, Cardinality(g))
            /\ \A i \in DOMAIN s :
                  /\ s[i].key \in g
                  /\ s[i].value = Total(filtered_df, fn.col, s[i].key, fn.value_col)
            /\ \A i, j \in DOMAIN s : i < j => s[i].key # s[j].key /\ s[i].value >= s[j].value
            /\ \A k \in g : (\A i \in DOMAIN s : s[i].key # k) =>
                  \A i \in DOMAIN s : s[i].value >= Total(filtered_df, fn.col, k, fn.value_col)

\* more groups than n, with sums that differ
C7_Witness ==
    /\ fn.op = "create_top_n_chart" /\ fn.res.computed
    /\ fn.top_n = 2 /\ Cardinality(Groups(filtered_df, fn.col)) = 3
    /\ Len(fn.res.summary) = 2 /\ fn.res.summary[1].value > fn.res.summary[2].value

\* C8: the balance computation lists the n groups of largest absolute
\* balance, in descending order of the absolute balance, each with the signed
\* balance (export sum minus import sum) of its own group.
C8_Balance ==
    (fn.op = "create_balance_chart" /\ fn.res.computed) =>
        LET s == fn.res.summary
            g == Groups(filtered_df, fn.col)
            Bal(k) == Total(filtered_df, fn.col, k, "export")
                      - Total(filtered_df, fn.col, k, "import")
        IN  /\ Len(s) = Min(fn.top_n, Cardinality(g))
            /\ \A i \in DOMAIN s : s[i].key \in g /\ s[i].balance = Bal(s[i].key)
            /\ \A i, j \in DOMAIN s :
                  i < j => s[i].key # s[j].key /\ Abs(Bal(s[i].key)) >= Abs(Bal(s[j].key))
            /\ \A k \in g : (\A i \in DOMAIN s : s[i].key # k) =>
                  \A i \in DOMAIN s : Abs(Bal(s[i].key)) >= Abs(Bal(k))

\* a deficit ranked before a smaller surplus, a third group left out
C8_Witness ==
    /\ fn.op = "create_balance_chart" /\ fn.res.computed
    /\ fn.top_n = 2 /\ Cardinality(Groups(filtered_df, fn.col)) = 3
    /\ Len(fn.res.summary) = 2
    /\ fn.res.summary[1].balance < 0 /\ fn.res.summary[2].balance > 0

====
